---- MODULE Spec2Model ----
(***************************************************************************)
(* A model of the Plymouth bin-collection scraper: the text parser         *)
(* (scraper.extract_collections), the sqlite result cache (cache.py), the  *)
(* top-level scrape, the calendar builder (scraper.build_ics) and the      *)
(* reminder (notify.main).                                                 *)
(*                                                                         *)
(* Strings the code inspects character by character (postcodes, hints,     *)
(* cache keys, ISO date strings) are sequences of ASCII codes.  The page   *)
(* text is a sequence of tokens (words, dates in the three written forms,  *)
(* white space, newlines): the regular expressions of the code are         *)
(* evaluated on tokens.                                                    *)
(***************************************************************************)
EXTENDS Integers, Sequences, FiniteSets, TLC

VARIABLES
    raw_text,      \* extract_collections: the page text handed to the parser
    collections,   \* extract_collections: the mapping it returns
    ppc,           \* parser run: "start" | "done"
    store,         \* cache.sqlite, table results: key -> [ts, json]
    clock,         \* time.time(), in ticks of 1/TicksPerSec second
    advances,      \* how many times the clock was advanced
    lastSet,       \* history: key -> the data and time of the latest set_cache on it
    got,           \* the last get_cache call and what it returned
    run,           \* the last scrape call and what it did
    lastFresh,     \* history: household -> the latest fresh scrape that was cached
    ics_in,        \* build_ics: its arguments
    cal,           \* build_ics: what it returned
    ipc,           \* calendar run: "start" | "done"
    n_data,        \* notify: the JSON document fetch_json returns
    today,         \* notify: now_uk_date()
    FORCE_SEND,    \* notify: the FORCE_SEND switch
    twilio_ok,     \* notify: whether the Twilio settings are present
    outbox,        \* notify: the bodies handed to send_whatsapp
    npc            \* notify run: "start" | "done" | "exit"

parseVars  == <<raw_text, collections, ppc>>
cacheVars  == <<store, clock, advances, lastSet, got, run, lastFresh>>
icsVars    == <<ics_in, cal, ipc>>
notifyVars == <<n_data, today, FORCE_SEND, twilio_ok, outbox, npc>>
vars       == <<parseVars, cacheVars, icsVars, notifyVars>>

None == "None"        \* None where a string is expected
NoDate == <<>>        \* None where a date is expected

(***************************************************************************)
(* Characters and strings                                                  *)
(***************************************************************************)
Digit(n) == 48 + n          \* chr: "0" .. "9"
Dash  == 45                 \* "-"
Space == 32                 \* " "
Bar   == 124                \* "|"

\* str.upper / str.lower on ASCII
UpperChar(c) == IF c >= 97 /\ c <= 122 THEN c - 32 ELSE c
LowerChar(c) == IF c >= 65 /\ c <= 90 THEN c + 32 ELSE c
upper(s) == [i \in DOMAIN s |-> UpperChar(s[i])]
lower(s) == [i \in DOMAIN s |-> LowerChar(s[i])]

IsWhite(c) == c \in {Space, 9, 10, 11, 12, 13}

\* str.strip(): leading and trailing white space removed
RECURSIVE lstrip(_)
lstrip(s) == IF s # <<>> /\ IsWhite(Head(s)) THEN lstrip(Tail(s)) ELSE s
RECURSIVE rstrip(_)
rstrip(s) == IF s # <<>> /\ IsWhite(s[Len(s)]) THEN rstrip(SubSeq(s, 1, Len(s) - 1)) ELSE s
strip(s) == rstrip(lstrip(s))

\* str.replace(" ", ""): every space (and only the space character) removed
IsNotSpace(c) == c # Space
replace_space(s) == SelectSeq(s, IsNotSpace)

(***************************************************************************)
(* Dates: <<year, month, day>>                                             *)
(***************************************************************************)
IsLeap(y) == (y % 4 = 0 /\ y % 100 # 0) \/ y % 400 = 0
DaysInMonth(y, m) ==
    IF m = 2 THEN (IF IsLeap(y) THEN 29 ELSE 28)
    ELSE IF m \in {4, 6, 9, 11} THEN 30 ELSE 31

\* datetime.date(y, m, d) raises ValueError outside these ranges
ValidDate(y, m, d) ==
    /\ y >= 1 /\ y <= 9999
    /\ m >= 1 /\ m <= 12
    /\ d >= 1 /\ d <= DaysInMonth(y, m)

\* date.__lt__
DateLess(a, b) ==
    \/ a[1] < b[1]
    \/ a[1] = b[1] /\ a[2] < b[2]
    \/ a[1] = b[1] /\ a[2] = b[2] /\ a[3] < b[3]

\* date + timedelta(days=1)
NextDay(dt) ==
    IF dt[3] < DaysInMonth(dt[1], dt[2]) THEN <<dt[1], dt[2], dt[3] + 1>>
    ELSE IF dt[2] < 12 THEN <<dt[1], dt[2] + 1, 1>>
    ELSE <<dt[1] + 1, 1, 1>>

\* date.isoformat(): "YYYY-MM-DD", zero padded
isoformat(dt) ==
    << Digit(dt[1] \div 1000), Digit((dt[1] \div 100) % 10),
       Digit((dt[1] \div 10) % 10), Digit(dt[1] % 10), Dash,
       Digit(dt[2] \div 10), Digit(dt[2] % 10), Dash,
       Digit(dt[3] \div 10), Digit(dt[3] % 10) >>

\* sorted(set): the dates of a set in ascending order
RECURSIVE SortDates(_)
SortDates(S) ==
    IF S = {} THEN <<>>
    ELSE LET mn == CHOOSE a \in S : \A b \in S \ {a} : DateLess(a, b)
         IN <<mn>> \o SortDates(S \ {mn})

Range(s) == {s[i] : i \in DOMAIN s}

\* str.__lt__: code-point lexicographic order
RECURSIVE StrLess(_, _)
StrLess(a, b) ==
    IF b = <<>> THEN FALSE
    ELSE IF a = <<>> THEN TRUE
    ELSE IF Head(a) # Head(b) THEN Head(a) < Head(b)
    ELSE StrLess(Tail(a), Tail(b))

(***************************************************************************)
(* The page text.  A token is a word, a run of blanks, a newline, or a     *)
(* date in one of the three written forms of DATE_PATTERNS:                *)
(*   "text"  27 October 2025        "num"  27/10/2025                      *)
(*   "iso"   2025-10-29T00:00:00                                           *)
(* The fields a, b, c of a date token are its three numbers in the order   *)
(* they are written (day, month, year; or year, month, day for "iso").     *)
(***************************************************************************)
Word(w)          == [k |-> "word", w |-> w,  a |-> 0, b |-> 0, c |-> 0]
Blank            == [k |-> "ws",   w |-> "", a |-> 0, b |-> 0, c |-> 0]
NL               == [k |-> "nl",   w |-> "", a |-> 0, b |-> 0, c |-> 0]
TextDate(d, m, y) == [k |-> "text", w |-> "", a |-> d, b |-> m, c |-> y]
NumDate(d, m, y)  == [k |-> "num",  w |-> "", a |-> d, b |-> m, c |-> y]
IsoStamp(y, m, d) == [k |-> "iso",  w |-> "", a |-> y, b |-> m, c |-> d]
NoMatch           == [k |-> "none", w |-> "", a |-> 0, b |-> 0, c |-> 0]

\* str.lower() of the words of the model's vocabulary
LowerWord(w) ==
    CASE w = "Today"     -> "today"
      [] w = "Today's"   -> "today's"
      [] w = "TODAY"     -> "today"
      [] w = "Green"     -> "green"
      [] w = "Recycling" -> "recycling"
      [] w = "Garden"    -> "garden"
      [] w = "Brown"     -> "brown"
      [] w = "Domestic"  -> "domestic"
      [] w = "Refuse"    -> "refuse"
      [] OTHER           -> w

\* sub in word.lower(): a word contains itself, and the longer words of the
\* vocabulary contain their stems
WordContains(w, sub) ==
    \/ LowerWord(w) = sub
    \/ LowerWord(w) = "refused" /\ sub = "refuse"
    \/ LowerWord(w) = "recyclingbank" /\ sub = "recycling"
    \/ LowerWord(w) = "today's" /\ sub = "today"

\* re \bword\b with re.I: a whole word of the line ("today's" holds the word
\* "today": the apostrophe is a word boundary)
IsWordAt(line, i, word) ==
    /\ line[i].k = "word"
    /\ \/ LowerWord(line[i].w) = word
       \/ LowerWord(line[i].w) = "today's" /\ word = "today"

HasWord(line, word) == \E i \in DOMAIN line : IsWordAt(line, i, word)

\* re \bfirst\b.*\bsecond\b with re.I
HasWordsInOrder(line, first, second) ==
    \E i \in DOMAIN line : \E j \in DOMAIN line :
        i < j /\ IsWordAt(line, i, first) /\ IsWordAt(line, j, second)

\* "sub" in line.lower()
LineContains(line, sub) ==
    \E i \in DOMAIN line : line[i].k = "word" /\ WordContains(line[i].w, sub)

\* str.splitlines(): the text cut at every newline; a trailing newline opens
\* no further line and the empty text has no line
RECURSIVE SplitAcc(_, _, _)
SplitAcc(text, cur, started) ==
    IF text = <<>> THEN (IF started THEN <<cur>> ELSE <<>>)
    ELSE IF Head(text).k = "nl" THEN <<cur>> \o SplitAcc(Tail(text), <<>>, FALSE)
    ELSE SplitAcc(Tail(text), Append(cur, Head(text)), TRUE)
splitlines(text) == SplitAcc(text, <<>>, FALSE)

\* str.strip() of a line of tokens
RECURSIVE lstrip_line(_)
lstrip_line(l) == IF l # <<>> /\ Head(l).k = "ws" THEN lstrip_line(Tail(l)) ELSE l
RECURSIVE rstrip_line(_)
rstrip_line(l) ==
    IF l # <<>> /\ l[Len(l)].k = "ws" THEN rstrip_line(SubSeq(l, 1, Len(l) - 1)) ELSE l
strip_line(l) == rstrip_line(lstrip_line(l))

\* "\n".join(lines)
RECURSIVE JoinLines(_)
JoinLines(ls) ==
    IF ls = <<>> THEN <<>>
    ELSE IF Len(ls) = 1 THEN ls[1]
    ELSE ls[1] \o <<NL>> \o JoinLines(Tail(ls))

\* lines = [l.strip() for l in raw_text.splitlines() if l.strip()]
IsNonBlank(l) == strip_line(l) # <<>>
Lines(text) ==
    LET kept == SelectSeq(splitlines(text), IsNonBlank)
    IN [i \in DOMAIN kept |-> strip_line(kept[i])]

(***************************************************************************)
(* DATE_PATTERNS, parse_any_date, classify_header                          *)
(***************************************************************************)
\* The three patterns in the order the code tries them; each matches the
\* tokens of one written form.
DATE_PATTERNS == <<"text", "num", "iso">>

\* rx.search(line): the leftmost match of one pattern, None when there is none
Search(kind, line) ==
    IF \E i \in DOMAIN line : line[i].k = kind
    THEN line[CHOOSE i \in DOMAIN line :
                 /\ line[i].k = kind
                 /\ \A j \in DOMAIN line : line[j].k = kind => i <= j]
    ELSE NoMatch

\* dateutil's parse(s, dayfirst=True, fuzzy=True) on a matched substring: the
\* three numbers are resolved to year, month, day as dateutil resolves them
\* (a leading four-digit year with a last number <= 12 reads year-day-month;
\* a day-month-year string whose second number is no month reads
\* month-day-year), and a date that does not exist raises.
ResolveYmd(tok) ==
    IF tok.k = "iso"
    THEN (IF tok.c <= 12 THEN <<tok.a, tok.c, tok.b>> ELSE <<tok.a, tok.b, tok.c>>)
    ELSE IF tok.k = "text" THEN <<tok.c, tok.b, tok.a>>
    ELSE IF tok.a > 31 THEN <<tok.a, tok.b, tok.c>>
    ELSE IF tok.a > 12 \/ tok.b <= 12 THEN <<tok.c, tok.b, tok.a>>
    ELSE <<tok.c, tok.a, tok.b>>

dateparser_parse(tok) ==
    LET r == ResolveYmd(tok)
    IN IF ValidDate(r[1], r[2], r[3]) THEN r ELSE NoDate

\* parse_any_date: the first pattern, in list order, that matches the line
\* and whose leftmost match parses; a match that fails to parse moves on to
\* the next pattern
RECURSIVE ParseFrom(_, _)
ParseFrom(p, line) ==
    IF p > Len(DATE_PATTERNS) THEN NoDate
    ELSE LET m == Search(DATE_PATTERNS[p], line)
         IN IF m # NoMatch /\ dateparser_parse(m) # NoDate
            THEN dateparser_parse(m)
            ELSE ParseFrom(p + 1, line)
parse_any_date(line) == IF line = <<>> THEN NoDate ELSE ParseFrom(1, line)

\* text_has_date
text_has_date(text) ==
    \E i \in DOMAIN text : text[i].k \in Range(DATE_PATTERNS)

\* HEADER_TO_SERVICE, in order, first match wins
classify_header(line) ==
    IF HasWordsInOrder(line, "green", "recycling") THEN "recycling"
    ELSE IF HasWordsInOrder(line, "garden", "waste") THEN "garden"
    ELSE IF \/ HasWordsInOrder(line, "brown", "domestic")
            \/ HasWordsInOrder(line, "brown", "refuse") THEN "refuse"
    ELSE IF HasWord(line, "domestic") THEN "refuse"
    ELSE IF HasWord(line, "refuse") THEN "refuse"
    ELSE None

(***************************************************************************)
(* extract_collections                                                     *)
(***************************************************************************)
ServiceKeys == {"refuse", "recycling", "garden"}
EmptyCollections == [s \in ServiceKeys |-> <<>>]

\* the guess from the line's own words when no header was seen yet
GuessService(line) ==
    IF LineContains(line, "recycling") THEN "recycling"
    ELSE IF LineContains(line, "garden") THEN "garden"
    ELSE IF LineContains(line, "domestic") \/ LineContains(line, "refuse") THEN "refuse"
    ELSE None

\* One step of pass 1 on one line: st = [current, coll]
Pass1Step(st, line) ==
    LET sec == classify_header(line)
    IN IF sec # None THEN [st EXCEPT !.current = sec]
       ELSE LET dt == parse_any_date(line)
            IN IF dt = NoDate THEN st
               ELSE LET svc == IF st.current # None THEN st.current
                               ELSE GuessService(line)
                    IN IF svc \in DOMAIN st.coll
                       THEN [st EXCEPT !.coll[svc] = Append(@, dt)]
                       ELSE st

RECURSIVE Pass1(_, _)
Pass1(st, lines) ==
    IF lines = <<>> THEN st ELSE Pass1(Pass1Step(st, Head(lines)), Tail(lines))

\* datetime.fromisoformat(m.group(1)).date() for each match of
\* \b(\d{4}-\d{2}-\d{2})T in the lines; a date that does not exist is skipped
IsoDates(lines) ==
    { <<lines[i][j].a, lines[i][j].b, lines[i][j].c>> :
        <<i, j>> \in { p \in (DOMAIN lines) \X (1..8) :
                         /\ p[2] \in DOMAIN lines[p[1]]
                         /\ lines[p[1]][p[2]].k = "iso"
                         /\ ValidDate(lines[p[1]][p[2]].a, lines[p[1]][p[2]].b,
                                      lines[p[1]][p[2]].c) } }

\* alt = ["recycling", "refuse"]; collections[alt[i % 2]].append(d)
RECURSIVE AlternateFill(_, _, _)
AlternateFill(coll, sorted_iso, i) ==
    IF i > Len(sorted_iso) THEN coll
    ELSE AlternateFill(
            [coll EXCEPT ![IF (i - 1) % 2 = 0 THEN "recycling" ELSE "refuse"] =
                            Append(@, sorted_iso[i])],
            sorted_iso, i + 1)

\* mutant: the fill runs whenever the text holds ISO timestamps
Pass2_Unguarded(coll, lines) ==
    LET iso_dates == IsoDates(lines)
    IN IF iso_dates # {} THEN AlternateFill(coll, SortDates(iso_dates), 1) ELSE coll

\* if iso_dates and not any(collections.values())
Pass2(coll, lines) ==
    LET iso_dates == IsoDates(lines)
    IN IF iso_dates # {} /\ \A s \in DOMAIN coll : coll[s] = <<>>
       THEN AlternateFill(coll, SortDates(iso_dates), 1)
       ELSE coll

\* mutant: the lists are formatted as collected, neither deduplicated nor sorted
Finish_Unsorted(coll) ==
    [s \in DOMAIN coll |-> [i \in DOMAIN coll[s] |-> isoformat(coll[s][i])]]

\* dedup = sorted(set(collections[k])); [d.isoformat() for d in dedup]
Finish(coll) ==
    [s \in DOMAIN coll |->
        LET dedup == SortDates(Range(coll[s]))
        IN [i \in DOMAIN dedup |-> isoformat(dedup[i])]]

extract_collections(text) ==
    LET lines == Lines(text)
        p1 == Pass1([current |-> None, coll |-> EmptyCollections], lines)
    IN Finish(Pass2(p1.coll, lines))

(***************************************************************************)
(* Parser runs: the text is any sequence of at most MaxLines lines of      *)
(* LinePool, joined by newlines.                                           *)
(***************************************************************************)
MaxLines == 3

D1   == NumDate(5, 11, 2025)          \* 05/11/2025
D2   == NumDate(12, 11, 2025)         \* 12/11/2025
DBad == NumDate(32, 10, 2025)         \* 32/10/2025: no such day
T1   == TextDate(29, 10, 2025)        \* 29 October 2025
I1   == IsoStamp(2025, 10, 29)        \* 2025-10-29T00:00:00
I2   == IsoStamp(2025, 11, 5)         \* 2025-11-05T00:00:00
I3   == IsoStamp(2025, 11, 12)        \* 2025-11-12T00:00:00

LinePool ==
    { <<Word("Green"), Word("Recycling"), Word("bin")>>,   \* headers
      <<Word("Brown"), Word("Domestic"), Word("bin")>>,
      <<Word("garden"), Word("waste")>>,
      <<Word("Refuse"), D2>>,                               \* header with a date
      <<Word("recyclingbank"), D1>>,                        \* keyword lines
      <<Word("Garden"), T1>>,
      <<Blank, Word("Wed"), D1, Blank>>,                    \* dates
      <<D2>>,
      <<T1>>,
      <<DBad>>,
      <<I1>>,
      <<I2>>,
      <<I3, Blank, I1>>,
      <<D2, Blank, D1>>,                                    \* two dates
      <<DBad, Blank, T1>>,
      <<Word("Today's"), Word("date"), T1>>,                \* the decoy line
      <<Word("TODAY"), D1>>,
      <<Word("bin")>>,
      <<Blank>>,
      <<>> }

RECURSIVE SeqsUpTo(_, _)
SeqsUpTo(S, n) ==
    IF n = 0 THEN {<<>>}
    ELSE LET shorter == SeqsUpTo(S, n - 1)
         IN shorter \cup {Append(q, x) : q \in shorter, x \in S}

Texts == {JoinLines(ls) : ls \in SeqsUpTo(LinePool, MaxLines)}

IdleParse == raw_text = <<>> /\ collections = <<>> /\ ppc = "idle"
IdleCache ==
    /\ store = <<>> /\ clock = 0 /\ advances = 0
    /\ lastSet = <<>> /\ got = <<>> /\ run = <<>> /\ lastFresh = <<>>
IdleIcs == ics_in = <<>> /\ cal = <<>> /\ ipc = "idle"
IdleNotify ==
    /\ n_data = <<>> /\ today = <<>> /\ FORCE_SEND = FALSE /\ twilio_ok = FALSE
    /\ outbox = <<>> /\ npc = "idle"

InitParse ==
    /\ raw_text \in Texts
    /\ collections = <<>>
    /\ ppc = "start"
    /\ IdleCache /\ IdleIcs /\ IdleNotify

\* collections = extract_collections(raw)
Extract ==
    /\ ppc = "start"
    /\ collections' = extract_collections(raw_text)
    /\ ppc' = "done"
    /\ UNCHANGED <<raw_text, cacheVars, icsVars, notifyVars>>

NextParse == Extract
SpecParse == InitParse /\ [][NextParse]_vars

(***************************************************************************)
(* Claims about the parser                                                 *)
(***************************************************************************)
IsDateTok(t) == t.k \in {"text", "num", "iso"}
IsNotDateTok(t) == ~IsDateTok(t)

\* the decoy line: it holds the word "today" in any letter case
IsDecoy(line) == HasWord(line, "today")

\* the text with every date removed from its decoy lines, nothing else changed
DropDecoyDates(line) == IF IsDecoy(line) THEN SelectSeq(line, IsNotDateTok) ELSE line
WithoutDecoyDates(text) ==
    LET ls == splitlines(text)
    IN JoinLines([i \in DOMAIN ls |-> DropDecoyDates(ls[i])])

\* C1: a line that contains the word "today" contributes no date to any
\* service list: the result is what it would be with the decoy lines' dates
\* taken out of the text.
C1_DecoyLineContributesNothing ==
    ppc = "done" => collections = extract_collections(WithoutDecoyDates(raw_text))

\* the date lists a run holds before deduplication and sorting
RawLists(text) ==
    LET lines == Lines(text)
    IN Pass2(Pass1([current |-> None, coll |-> EmptyCollections], lines).coll, lines)

StrictlyAscending(strs) ==
    \A i \in DOMAIN strs : \A j \in DOMAIN strs : i < j => StrLess(strs[i], strs[j])

\* C2: the result has exactly the keys refuse, recycling and garden, and each
\* of its date lists is strictly ascending (so without duplicate) in string
\* order, whichever pass filled it.
C2_KeysAndAscendingLists ==
    ppc = "done" =>
        /\ DOMAIN collections = ServiceKeys
        /\ \A s \in ServiceKeys : StrictlyAscending(collections[s])

\* C2's case: pass 1 collected a service's dates out of order, and the
\* returned list holds them both.
C2_Witness ==
    /\ ppc = "done"
    /\ \E s \in ServiceKeys :
          LET rawl == RawLists(raw_text)[s]
          IN /\ Len(collections[s]) >= 2
             /\ \E i \in DOMAIN rawl : \E j \in DOMAIN rawl :
                   i < j /\ DateLess(rawl[j], rawl[i])

\* the service of the nearest header line above line i, None when there is none
HeaderAbove(lines, i) ==
    LET hs == {j \in 1..(i - 1) : classify_header(lines[j]) # None}
    IN IF hs = {} THEN None
       ELSE classify_header(lines[CHOOSE j \in hs : \A h \in hs : h <= j])

\* a classification rule attributes the date string ds to service s: a line
\* that is no header carries the date, and either the nearest header above it
\* is s, or there is no header above it and the line's own keyword says s
Attributed(lines, s, ds) ==
    \E i \in DOMAIN lines :
        /\ classify_header(lines[i]) = None
        /\ parse_any_date(lines[i]) # NoDate
        /\ isoformat(parse_any_date(lines[i])) = ds
        /\ \/ HeaderAbove(lines, i) = s
           \/ HeaderAbove(lines, i) = None /\ GuessService(lines[i]) = s

AnyAttributed(lines) ==
    \E i \in DOMAIN lines :
        /\ classify_header(lines[i]) = None
        /\ parse_any_date(lines[i]) # NoDate
        /\ \/ HeaderAbove(lines, i) # None
           \/ GuessService(lines[i]) # None

\* the valid dates written as ISO timestamps anywhere in the text
StampDates(lines) ==
    { <<t.a, t.b, t.c>> : t \in { u \in UNION {Range(lines[i]) : i \in DOMAIN lines} :
                                     u.k = "iso" /\ ValidDate(u.a, u.b, u.c) } }

\* the alternating fill places d, the n-th of the stamp dates in ascending
\* order counting from 0, in recycling for even n and in refuse for odd n
FilledInto(lines, s, ds) ==
    \E d \in StampDates(lines) :
        /\ isoformat(d) = ds
        /\ LET n == Cardinality({e \in StampDates(lines) : DateLess(e, d)})
           IN s = IF n % 2 = 0 THEN "recycling" ELSE "refuse"

JTok(t)    == [t |-> t,     n |-> "", s |-> <<>>, v |-> 0]
JKey(name) == [t |-> "key", n |-> name, s |-> <<>>, v |-> 0]
JStr(str)  == [t |-> "str", n |-> "", s |-> str, v |-> 0]
JNum(num)  == [t |-> "num", n |-> "", s |-> <<>>, v |-> num]

RECURSIVE DumpsStrList(_)
DumpsStrList(l) == IF l = <<>> THEN <<>> ELSE <<JStr(Head(l))>> \o DumpsStrList(Tail(l))

\* the members of a dict are written in insertion order
CollectionKeyOrder == <<"refuse", "recycling", "garden">>

RECURSIVE DumpsCollections(_, _)
DumpsCollections(coll, i) ==
    IF i > Len(CollectionKeyOrder) THEN <<>>
    ELSE <<JKey(CollectionKeyOrder[i]), JTok("[")>>
         \o DumpsStrList(coll[CollectionKeyOrder[i]])
         \o <<JTok("]")>> \o DumpsCollections(coll, i + 1)

\* json.dumps(data) of the dict scrape builds
json_dumps(data) ==
    <<JTok("{"), JKey("postcode"), JStr(data.postcode),
      JKey("address_hint"), JStr(data.address_hint),
      JKey("collections"), JTok("{")>>
    \o DumpsCollections(data.collections, 1)
    \o <<JTok("}"), JKey("scraped_at"), JNum(data.scraped_at), JTok("}")>>

\* json.loads: a recursive-descent reading of the tokens; each reader returns
\* the value read and the tokens left
RECURSIVE LoadsValue(_)
RECURSIVE LoadsArray(_, _)
RECURSIVE LoadsObject(_, _)
LoadsValue(toks) ==
    CASE Head(toks).t = "str" -> [val |-> Head(toks).s, rest |-> Tail(toks)]
      [] Head(toks).t = "num" -> [val |-> Head(toks).v, rest |-> Tail(toks)]
      [] Head(toks).t = "["   -> LoadsArray(Tail(toks), <<>>)
      [] Head(toks).t = "{"   -> LoadsObject(Tail(toks), <<>>)
LoadsArray(toks, acc) ==
    IF Head(toks).t = "]" THEN [val |-> acc, rest |-> Tail(toks)]
    ELSE LET r == LoadsValue(toks) IN LoadsArray(r.rest, Append(acc, r.val))
LoadsObject(toks, acc) ==
    IF Head(toks).t = "}" THEN [val |-> acc, rest |-> Tail(toks)]
    ELSE LET r == LoadsValue(Tail(toks))
         IN LoadsObject(r.rest, (Head(toks).n :> r.val) @@ acc)
json_loads(payload) == LoadsValue(payload).val

(***************************************************************************)
(* cache.py: the table results(key PRIMARY KEY, ts, json)                  *)
(***************************************************************************)
TicksPerSec == 2          \* clock resolution of the model
MaxAdvances == 2          \* at most this many clock advances in a run
SecondsPerHour == 3600

\* int(time.time())
NowSeconds(t) == t \div TicksPerSec

\* the result of a lookup: a hit with its value, or None
Hit(v) == [hit |-> TRUE, value |-> v]
Miss   == [hit |-> FALSE, value |-> <<>>]

\* mutant: an entry whose age equals the ttl is already expired
get_cache_ExpiresAtTtl(db, key, ttl_seconds, now) ==
    IF key \notin DOMAIN db THEN Miss
    ELSE IF ttl_seconds # <<>>
            /\ now - db[key].ts * TicksPerSec >= ttl_seconds[1] * TicksPerSec
         THEN Miss
    ELSE Hit(json_loads(db[key].json))

\* get_cache(key, ttl_seconds) at time now (in ticks); ttl_seconds is <<>> for
\* None and <<n>> for the number n.  (time.time() - ts) > ttl_seconds
get_cache(db, key, ttl_seconds, now) ==
    IF key \notin DOMAIN db THEN Miss
    ELSE IF ttl_seconds # <<>>
            /\ now - db[key].ts * TicksPerSec > ttl_seconds[1] * TicksPerSec
         THEN Miss
    ELSE Hit(json_loads(db[key].json))

\* mutant: INSERT OR IGNORE, an existing row is kept
set_cache_KeepsOld(db, key, data, now) ==
    IF key \in DOMAIN db THEN db
    ELSE (key :> [ts |-> NowSeconds(now), json |-> json_dumps(data)]) @@ db

\* set_cache(key, data) at time now: REPLACE INTO results(key, ts, json)
set_cache(db, key, data, now) ==
    (key :> [ts |-> NowSeconds(now), json |-> json_dumps(data)]) @@ db

(***************************************************************************)
(* Postcodes, hints, cache keys                                            *)
(***************************************************************************)
\* normalise_postcode
normalise_postcode(pc) ==
    LET q == replace_space(upper(strip(pc)))
    IN IF Len(q) > 3
       THEN SubSeq(q, 1, Len(q) - 3) \o <<Space>> \o SubSeq(q, Len(q) - 2, Len(q))
       ELSE q

\* mutant: the key keeps the letter case of the hint
cache_key_CaseKept(postcode, address_hint) == lower(postcode) \o <<Bar>> \o address_hint

\* cache_key = f"{postcode}|{address_hint}".lower()
cache_key(postcode, address_hint) == lower(postcode \o <<Bar>> \o address_hint)

\* mutant: a ttl of zero still uses the cache
use_cache_ZeroCounts(ttl_hours) == ttl_hours # <<>> /\ ttl_hours[1] >= 0

\* use_cache = bool(ttl_hours and ttl_hours > 0); ttl_hours is <<>> for None
use_cache(ttl_hours) == ttl_hours # <<>> /\ ttl_hours[1] # 0 /\ ttl_hours[1] > 0

Postcodes ==
    { <<80, 76, 54, 32, 53, 72, 88>>,            \* "PL6 5HX"
      <<32, 112, 108, 54, 53, 104, 120, 32>> }   \* " pl65hx "
ShortPostcode == <<80, 76, 54>>                  \* "PL6"
Hints ==
    { <<65, 98>>,                                \* "Ab"
      <<97, 66>> }                               \* "aB"

\* what run_form returns: a page with dates under a header, a page with no
\* date, a page of bare ISO timestamps
PageDates == JoinLines(<< <<Word("Green"), Word("Recycling"), Word("bin")>>, <<D1>> >>)
PageNoDates == JoinLines(<< <<Word("bin")>> >>)
Pages == {PageDates, PageNoDates}

\* the dict scrape builds
Record(postcode, address_hint, colls, now) ==
    [postcode |-> postcode, address_hint |-> address_hint,
     collections |-> colls, scraped_at |-> now]

(***************************************************************************)
(* Direct use of the cache: set_cache, get_cache, time passing             *)
(***************************************************************************)
AdvanceSteps == {1, TicksPerSec * SecondsPerHour}

CacheKeys ==
    {cache_key(normalise_postcode(pc), h) : pc \in Postcodes \cup {ShortPostcode}, h \in Hints}
CacheData ==
    {Record(normalise_postcode(pc), h, extract_collections(pg), 0) :
        pc \in {ShortPostcode}, h \in {<<65, 98>>}, pg \in Pages}
CacheTtls == {<<>>, <<0>>, <<SecondsPerHour>>}

\* got.hist is the latest set on the key as it was when the get was made:
\* <<>> when there was none, <<[data, at]>> otherwise
NoGet == [op |-> "none", key |-> <<>>, ttl |-> <<>>, at |-> 0, res |-> Miss,
          hist |-> <<>>]
\* run.before and run.after are the table before and after the call; run.hist
\* is the household's latest cached fresh scrape as it was when the call was
\* made: <<>> when there was none
NoRun ==
    [op |-> "none", postcode |-> <<>>, hint |-> <<>>, ttl |-> <<>>, at |-> 0,
     outcome |-> "none", fetched |-> FALSE, page |-> <<>>, ret |-> <<>>,
     before |-> <<>>, after |-> <<>>, hist |-> <<>>]

InitCache ==
    /\ store = <<>>
    /\ clock = 0
    /\ advances = 0
    /\ lastSet = <<>>
    /\ got = NoGet
    /\ run = NoRun
    /\ lastFresh = <<>>
    /\ IdleParse /\ IdleIcs /\ IdleNotify

\* time passes
Advance(dt) ==
    /\ advances < MaxAdvances
    /\ clock' = clock + dt
    /\ advances' = advances + 1
    /\ UNCHANGED <<store, lastSet, got, run, lastFresh, parseVars, icsVars, notifyVars>>

SetCacheCall(key, data) ==
    /\ store' = set_cache(store, key, data, clock)
    /\ lastSet' = (key :> [data |-> data, at |-> clock]) @@ lastSet
    /\ UNCHANGED <<clock, advances, got, run, lastFresh, parseVars, icsVars, notifyVars>>

GetCacheCall(key, ttl) ==
    /\ got' = [op |-> "get", key |-> key, ttl |-> ttl, at |-> clock,
               res |-> get_cache(store, key, ttl, clock),
               hist |-> IF key \in DOMAIN lastSet THEN <<lastSet[key]>> ELSE <<>>]
    /\ UNCHANGED <<store, clock, advances, lastSet, run, lastFresh,
                   parseVars, icsVars, notifyVars>>

NextCache ==
    \/ \E dt \in AdvanceSteps : Advance(dt)
    \/ \E key \in CacheKeys : \E data \in CacheData : SetCacheCall(key, data)
    \/ \E key \in CacheKeys : \E ttl \in CacheTtls : GetCacheCall(key, ttl)

SpecCache == InitCache /\ [][NextCache]_vars

\* the age in ticks, at time now, of an entry written at time at: the
\* timestamp of an entry is the whole second it was written in
AgeTicks(at, now) == now - (at \div TicksPerSec) * TicksPerSec

\* C5: get_cache(k, ttl) returns the data of the most recent set_cache(k, r)
\* when there was one and (now - its timestamp) <= ttl (or no ttl was given),
\* content-equal to r, and a miss otherwise; a set on another key changes
\* nothing of it.
C5_GetReturnsLatestFreshSet ==
    got.op = "get" =>
        LET fresh == /\ got.hist # <<>>
                     /\ \/ got.ttl = <<>>
                        \/ AgeTicks(got.hist[1].at, got.at) <= got.ttl[1] * TicksPerSec
        IN /\ got.res.hit = fresh
           /\ fresh => got.res.value = got.hist[1].data

\* C5's case: the key was set, another key was set later with other data, and
\* a get that finds the entry exactly ttl old returns the key's own data.
C5_Witness ==
    /\ got.op = "get"
    /\ got.res.hit
    /\ got.ttl # <<>>
    /\ got.ttl[1] > 0
    /\ got.hist # <<>>
    /\ AgeTicks(got.hist[1].at, got.at) = got.ttl[1] * TicksPerSec
    /\ got.res.value = got.hist[1].data
    /\ \E k \in DOMAIN lastSet :
          /\ k # got.key
          /\ lastSet[k].at > got.hist[1].at
          /\ lastSet[k].at <= got.at
          /\ lastSet[k].data # got.hist[1].data

(***************************************************************************)
(* scrape                                                                  *)
(***************************************************************************)
TtlHours == {<<>>, <<0>>, <<1>>}

\* what run_form does: it raises (no postcode input, a timeout), or returns
\* the text of the page
FetchOutcomes ==
    {[raises |-> TRUE, text |-> <<>>]} \cup {[raises |-> FALSE, text |-> pg] : pg \in Pages}

\* a household: the postcode up to letter case and spaces, the hint up to
\* letter case
Household(postcode, hint) == <<lower(replace_space(postcode)), lower(hint)>>

HistOf(postcode, hint) ==
    IF Household(postcode, hint) \in DOMAIN lastFresh
    THEN <<lastFresh[Household(postcode, hint)]>>
    ELSE <<>>

\* scrape(postcode, address_hint, ttl_hours), with what run_form does as f.
\* The whole call happens at one reading of the clock.
Scrape(pc, address_hint, ttl_hours, f) ==
    LET postcode == normalise_postcode(pc)
        key      == cache_key(postcode, address_hint)
        cached   == IF use_cache(ttl_hours)
                    THEN get_cache(store, key, <<ttl_hours[1] * SecondsPerHour>>, clock)
                    ELSE Miss
        call     == [op |-> "scrape", postcode |-> pc, hint |-> address_hint,
                     ttl |-> ttl_hours, at |-> clock, before |-> store,
                     hist |-> HistOf(pc, address_hint),
                     outcome |-> "none", fetched |-> FALSE, page |-> <<>>,
                     ret |-> <<>>, after |-> store]
    IN IF use_cache(ttl_hours) /\ cached.hit /\ cached.value # <<>>
       THEN \* if cached := get_cache(...): return cached
            /\ run' = [call EXCEPT !.outcome = "cached", !.ret = cached.value]
            /\ UNCHANGED <<store, lastFresh>>
       ELSE IF f.raises
       THEN \* run_form raises: the exception leaves scrape
            /\ run' = [call EXCEPT !.outcome = "raised", !.fetched = TRUE]
            /\ UNCHANGED <<store, lastFresh>>
       ELSE LET data == Record(postcode, address_hint, extract_collections(f.text), clock)
                db   == IF use_cache(ttl_hours)
                        THEN set_cache(store, key, data, clock)
                        ELSE store
            IN /\ store' = db
               /\ run' = [call EXCEPT !.outcome = "fresh", !.fetched = TRUE,
                                      !.page = f.text, !.ret = data, !.after = db]
               /\ lastFresh' =
                     IF use_cache(ttl_hours)
                     THEN (Household(pc, address_hint) :>
                             [data |-> data, at |-> clock,
                              postcode |-> pc, hint |-> address_hint]) @@ lastFresh
                     ELSE lastFresh

ScrapeCall(pc, address_hint, ttl_hours, f) ==
    /\ Scrape(pc, address_hint, ttl_hours, f)
    /\ UNCHANGED <<clock, advances, lastSet, got, parseVars, icsVars, notifyVars>>

NextScrape ==
    \/ \E dt \in AdvanceSteps : Advance(dt)
    \/ \E pc \in Postcodes : \E h \in Hints : \E ttl \in TtlHours :
          \E f \in FetchOutcomes : ScrapeCall(pc, h, ttl, f)

SpecScrape == InitCache /\ [][NextScrape]_vars

\* C4: when the fetched text holds no date at all, scrape surfaces a fatal
\* condition: it returns no record, and it writes none to the cache.
C4_NoDatesIsFatal ==
    (run.op = "scrape" /\ run.fetched /\ ~text_has_date(run.page)) =>
        /\ run.outcome = "raised"
        /\ run.after = run.before

\* C6: with ttl_hours 0 or None, scrape never returns a cached record, always
\* fetches, and leaves the table as it was.
C6_ZeroTtlBypassesCache ==
    (run.op = "scrape" /\ (run.ttl = <<>> \/ run.ttl[1] = 0)) =>
        /\ run.outcome # "cached"
        /\ run.fetched
        /\ run.after = run.before

\* C6's case: the table holds a fresh entry of the household, written in this
\* very second, and a scrape with ttl_hours 0 fetches and returns a record.
C6_Witness ==
    /\ run.op = "scrape"
    /\ run.ttl = <<0>>
    /\ run.hist # <<>>
    /\ run.hist[1].at = run.at
    /\ run.outcome = "fresh"
    /\ run.before # <<>>
    /\ run.after = run.before

\* C7: after a fresh scrape that was cached, a later scrape with caching on,
\* of the same household (postcode equal up to letter case and spaces, hint
\* equal up to letter case), made while the entry is at most ttl old, returns
\* the stored record, does not fetch and does not write the table.
C7_SameHouseholdServedFromCache ==
    (/\ run.op = "scrape"
     /\ run.ttl # <<>>
     /\ run.ttl[1] > 0
     /\ run.hist # <<>>
     /\ AgeTicks(run.hist[1].at, run.at)
           <= run.ttl[1] * SecondsPerHour * TicksPerSec) =>
        /\ run.outcome = "cached"
        /\ run.ret = run.hist[1].data
        /\ ~run.fetched
        /\ run.after = run.before

\* C7's case: the later scrape writes the postcode and the hint differently,
\* a full ttl after the fresh one, and is served from the cache.
C7_Witness ==
    /\ run.op = "scrape"
    /\ run.outcome = "cached"
    /\ run.hist # <<>>
    /\ run.hist[1].postcode # run.postcode
    /\ run.hist[1].hint # run.hint
    /\ AgeTicks(run.hist[1].at, run.at) = run.ttl[1] * SecondsPerHour * TicksPerSec
    /\ run.ret = run.hist[1].data

(***************************************************************************)
(* build_ics                                                               *)
(***************************************************************************)
\* str.title() of the service keys of the model
title(key) ==
    CASE key = "refuse"    -> "Refuse"
      [] key = "recycling" -> "Recycling"
      [] key = "garden"    -> "Garden"
      [] key = "food"      -> "Food"

\* name_map.get(svc, svc.title()) in build_ics
name_map_get(svc) ==
    CASE svc = "refuse"    -> "Refuse (brown)"
      [] svc = "recycling" -> "Recycling (green)"
      [] svc = "garden"    -> "Garden waste"
      [] OTHER             -> title(svc)

\* the label dict of notify.main, .get(key, key.title())
notify_label(key) ==
    CASE key = "refuse"    -> "Refuse (brown bin)"
      [] key = "recycling" -> "Recycling (green bin)"
      [] key = "garden"    -> "Garden waste"
      [] OTHER             -> title(key)

\* ev = Event(); ev.name = ...; ev.begin = ds; ev.make_all_day().  Every
\* Event gets a uid of its own, and events are equal when their uids are.
NewEvent(uid, svc, ds) ==
    [uid |-> uid, name |-> name_map_get(svc) \o " bin collection",
     begin |-> ds, all_day |-> TRUE]

\* mutant: only the first date of a service is added
RECURSIVE AddDates_FirstOnly(_, _, _, _)
AddDates_FirstOnly(events, svc, dates, i) ==
    IF i > Len(dates) \/ i > 1 THEN events
    ELSE AddDates_FirstOnly(
            events \cup {NewEvent(Cardinality(events) + 1, svc, dates[i])},
            svc, dates, i + 1)

\* for ds in dates: cal.events.add(ev)
RECURSIVE AddDates(_, _, _, _)
AddDates(events, svc, dates, i) ==
    IF i > Len(dates) THEN events
    ELSE AddDates(events \cup {NewEvent(Cardinality(events) + 1, svc, dates[i])},
                  svc, dates, i + 1)

\* the keys of a dict in insertion order
KeyOrder == <<"refuse", "recycling", "garden", "food">>

\* for svc, dates in collections.items()
RECURSIVE AddServices(_, _, _)
AddServices(events, colls, i) ==
    IF i > Len(KeyOrder) THEN events
    ELSE IF KeyOrder[i] \in DOMAIN colls
    THEN AddServices(AddDates(events, KeyOrder[i], colls[KeyOrder[i]], 1), colls, i + 1)
    ELSE AddServices(events, colls, i + 1)

\* build_ics(collections): None when the ics package cannot be imported,
\* a Calendar otherwise
build_ics(colls, ics_importable) ==
    IF ~ics_importable THEN [ok |-> FALSE, events |-> {}]
    ELSE [ok |-> TRUE, events |-> AddServices({}, colls, 1)]

\* the date lists a record can hold: ascending, unique ISO dates
DS1 == isoformat(<<2025, 11, 1>>)
DS2 == isoformat(<<2025, 11, 5>>)
DateLists == {<<>>, <<DS1>>, <<DS2>>, <<DS1, DS2>>}

CollectionInputs ==
    [ServiceKeys -> DateLists] \cup [ServiceKeys \cup {"food"} -> DateLists]

InitIcs ==
    /\ ics_in \in [collections : CollectionInputs, ics_importable : BOOLEAN]
    /\ cal = <<>>
    /\ ipc = "start"
    /\ IdleParse /\ IdleCache /\ IdleNotify

BuildIcs ==
    /\ ipc = "start"
    /\ cal' = build_ics(ics_in.collections, ics_in.ics_importable)
    /\ ipc' = "done"
    /\ UNCHANGED <<ics_in, parseVars, cacheVars, notifyVars>>

NextIcs == BuildIcs
SpecIcs == InitIcs /\ [][NextIcs]_vars

RECURSIVE SumLens(_, _)
SumLens(colls, keys) ==
    IF keys = {} THEN 0
    ELSE LET k == CHOOSE x \in keys : TRUE
         IN Len(colls[k]) + SumLens(colls, keys \ {k})

\* C8: the calendar build_ics returns holds exactly sum(len(dates)) events,
\* all of them all-day: one for each (service, date) pair and no other.
C8_OneEventPerServiceDate ==
    (ipc = "done" /\ cal.ok) =>
        LET colls == ics_in.collections
        IN /\ Cardinality(cal.events) = SumLens(colls, DOMAIN colls)
           /\ \A svc \in DOMAIN colls : \A i \in DOMAIN colls[svc] :
                 Cardinality({e \in cal.events :
                                 /\ e.name = name_map_get(svc) \o " bin collection"
                                 /\ e.begin = colls[svc][i]}) = 1
           /\ \A e \in cal.events :
                 /\ e.all_day
                 /\ \E svc \in DOMAIN colls :
                       /\ e.name = name_map_get(svc) \o " bin collection"
                       /\ e.begin \in Range(colls[svc])

\* C8's case: two services share a date, one of them has a second date, and
\* the calendar holds the three events.
C8_Witness ==
    /\ ipc = "done"
    /\ cal.ok
    /\ ics_in.collections["refuse"] = <<DS1, DS2>>
    /\ ics_in.collections["recycling"] = <<DS1>>
    /\ ics_in.collections["garden"] = <<>>
    /\ DOMAIN ics_in.collections = ServiceKeys
    /\ Cardinality(cal.events) = 3

\* C9: the label in the title of a calendar event is the label of the same
\* service in the reminder: refuse -> "Refuse (brown bin)", recycling ->
\* "Recycling (green bin)", garden -> "Garden waste", the capitalised key
\* otherwise.
C9_CalendarUsesReminderLabels ==
    (ipc = "done" /\ cal.ok) =>
        \A svc \in DOMAIN ics_in.collections :
            \A ds \in Range(ics_in.collections[svc]) :
                \E e \in cal.events :
                    /\ e.begin = ds
                    /\ e.name = notify_label(svc) \o " bin collection"

(***************************************************************************)
(* notify.main                                                             *)
(***************************************************************************)
IsDigitChar(c) == c >= 48 /\ c <= 57

RECURSIVE DigitsValue(_)
DigitsValue(s) ==
    IF s = <<>> THEN 0 ELSE DigitsValue(SubSeq(s, 1, Len(s) - 1)) * 10 + (s[Len(s)] - 48)

AllDigits(s) == \A i \in DOMAIN s : IsDigitChar(s[i])

\* datetime.strptime(s, "%Y-%m-%d").date(): four digits, a dash, one or two
\* digits, a dash, one or two digits, and nothing else; NoDate for ValueError
strptime(s) ==
    LET dashes == {i \in DOMAIN s : s[i] = Dash}
    IN IF Cardinality(dashes) # 2 THEN NoDate
       ELSE LET p == CHOOSE i \in dashes : \A j \in dashes : i <= j
                q == CHOOSE i \in dashes : \A j \in dashes : j <= i
                ys == SubSeq(s, 1, p - 1)
                ms == SubSeq(s, p + 1, q - 1)
                ds == SubSeq(s, q + 1, Len(s))
            IN IF /\ Len(ys) = 4 /\ Len(ms) \in {1, 2} /\ Len(ds) \in {1, 2}
                  /\ AllDigits(ys) /\ AllDigits(ms) /\ AllDigits(ds)
                  /\ ValidDate(DigitsValue(ys), DigitsValue(ms), DigitsValue(ds))
               THEN <<DigitsValue(ys), DigitsValue(ms), DigitsValue(ds)>>
               ELSE NoDate

\* mutant: a collection on or after tomorrow counts as due
IsDue_OnOrAfter(d, tomorrow) == ~DateLess(d, tomorrow)

\* if d == tomorrow
IsDue(d, tomorrow) == d = tomorrow

\* for s in (arr or []): ... services.append(label)
RECURSIVE DueInList(_, _, _, _)
DueInList(key, arr, tomorrow, i) ==
    IF i > Len(arr) THEN <<>>
    ELSE LET d == strptime(arr[i])
         IN (IF d # NoDate /\ IsDue(d, tomorrow) THEN <<notify_label(key)>> ELSE <<>>)
            \o DueInList(key, arr, tomorrow, i + 1)

\* for key, arr in collections.items()
RECURSIVE DueServices(_, _, _)
DueServices(colls, tomorrow, i) ==
    IF i > Len(KeyOrder) THEN <<>>
    ELSE (IF KeyOrder[i] \in DOMAIN colls
          THEN DueInList(KeyOrder[i], colls[KeyOrder[i]], tomorrow, 1)
          ELSE <<>>)
         \o DueServices(colls, tomorrow, i + 1)

\* the body of a message: the test ping, or the reminder with its heading
\* (postcode, hint, tomorrow's date) and one bullet line per entry of services
TestBody(data) ==
    [kind |-> "test", postcode |-> data.postcode, hint |-> data.address_hint,
     date |-> <<>>, bullets |-> <<>>]
ReminderBody(data, tomorrow, services) ==
    [kind |-> "reminder", postcode |-> data.postcode, hint |-> data.address_hint,
     date |-> tomorrow, bullets |-> services]

\* a list entry that is no string (JSON null or a number), kept apart from
\* every string: the codes of a string are never negative
NotAString == <<-1>>
IsString(s) == \A i \in DOMAIN s : s[i] >= 0

\* datetime.strptime(s, ...) raises TypeError, which main does not catch, when
\* s is no string; the loop over the lists meets every entry
RaisesTypeError(colls) ==
    \E key \in DOMAIN colls : \E i \in DOMAIN colls[key] : ~IsString(colls[key][i])

\* main(): what it hands to send_whatsapp, <<>> when it sends nothing. The
\* loop over the lists runs first, with force mode on as well.
main_body(data, now, force) ==
    LET tomorrow == NextDay(now)
        services == DueServices(data.collections, tomorrow, 1)
    IN IF RaisesTypeError(data.collections) THEN <<>>
       ELSE IF force THEN <<TestBody(data)>>
       ELSE IF services = <<>> THEN <<>>
       ELSE <<ReminderBody(data, tomorrow, services)>>

\* date strings that are no canonical ISO date
DSLoose == <<50, 48, 50, 53, 45, 49, 49, 45, 53>>    \* "2025-11-5"
DSJunk  == <<110, 47, 97>>                           \* "n/a"

NotifyLists == DateLists \cup {<<DSLoose>>, <<DSJunk>>, <<NotAString>>}
Todays == {<<2025, 10, 31>>, <<2025, 11, 4>>, <<2025, 12, 31>>}

NotifyData ==
    [postcode : {normalise_postcode(ShortPostcode)}, address_hint : {<<65, 98>>},
     collections : [ServiceKeys -> NotifyLists]]

InitNotify ==
    /\ n_data \in NotifyData
    /\ today \in Todays
    /\ FORCE_SEND \in BOOLEAN
    /\ twilio_ok \in BOOLEAN
    /\ outbox = <<>>
    /\ npc = "start"
    /\ IdleParse /\ IdleCache /\ IdleIcs

\* main(), with send_whatsapp: the body is handed to send_whatsapp, which
\* leaves by SystemExit when the Twilio settings are missing; main ends with
\* an uncaught TypeError, before any send, when a list entry is no string
Main ==
    /\ npc = "start"
    /\ outbox' = main_body(n_data, today, FORCE_SEND)
    /\ npc' = IF RaisesTypeError(n_data.collections) THEN "error"
              ELSE IF outbox' # <<>> /\ ~twilio_ok THEN "exit"
              ELSE "done"
    /\ UNCHANGED <<n_data, today, FORCE_SEND, twilio_ok, parseVars, cacheVars, icsVars>>

NextNotify == Main
SpecNotify == InitNotify /\ [][NextNotify]_vars

\* a ScheduleRecord: every list holds canonical ISO dates, strictly ascending
IsIsoDate(s) == strptime(s) # NoDate /\ isoformat(strptime(s)) = s
IsScheduleRecord(data) ==
    \A svc \in DOMAIN data.collections :
        /\ \A i \in DOMAIN data.collections[svc] : IsIsoDate(data.collections[svc][i])
        /\ StrictlyAscending(data.collections[svc])

\* the services whose list contains the ISO date of today + 1 day
DueSet(data, now) ==
    {svc \in DOMAIN data.collections :
        isoformat(NextDay(now)) \in Range(data.collections[svc])}

\* C10: with force mode off, main sends a message exactly when some service's
\* list contains the ISO date of today + 1 day; the message is the reminder,
\* with one bullet line for each due service and no other line.
C10_ReminderIffDueTomorrow ==
    (npc # "start" /\ ~FORCE_SEND /\ IsScheduleRecord(n_data)) =>
        LET due == DueSet(n_data, today)
        IN /\ (outbox # <<>>) <=> (due # {})
           /\ due # {} =>
                 /\ Len(outbox) = 1
                 /\ outbox[1].kind = "reminder"
                 /\ Len(outbox[1].bullets) = Cardinality(due)
                 /\ \A svc \in due :
                       \E i \in DOMAIN outbox[1].bullets :
                           outbox[1].bullets[i] = notify_label(svc)

\* C10's case: today is the last day of a month, two services are due on the
\* first of the next, the third is not, and the reminder has the two bullets.
C10_Witness ==
    /\ npc = "done"
    /\ ~FORCE_SEND
    /\ IsScheduleRecord(n_data)
    /\ today = <<2025, 10, 31>>
    /\ DueSet(n_data, today) = {"refuse", "garden"}
    /\ n_data.collections["recycling"] = <<DS2>>
    /\ Len(outbox) = 1
    /\ outbox[1].bullets = <<notify_label("refuse"), notify_label("garden")>>

\* C11: with force mode on, main sends exactly one message, the test
\* message, whatever the schedule holds: services due or none, lists that are
\* empty or hold entries that are no dates.
C11_ForceSendsTestMessage ==
    (npc # "start" /\ FORCE_SEND) =>
        /\ Len(outbox) = 1
        /\ outbox[1].kind = "test"

(***************************************************************************)
(* Claims about the dates of a line                                        *)
(***************************************************************************)
\* the date a date token writes, read day first (an ISO timestamp year first)
TokDate(t) == IF t.k = "iso" THEN <<t.a, t.b, t.c>> ELSE <<t.c, t.b, t.a>>

\* the valid dates written on a line, as ISO strings
DatesOnLine(line) ==
    { isoformat(TokDate(t)) :
        t \in { u \in Range(line) : IsDateTok(u) /\ ValidDate(TokDate(u)[1], TokDate(u)[2], TokDate(u)[3]) } }

\* C12: a valid date written on the same line as a service heading, on a line
\* that is no decoy line, is in the list of that heading's service.
C12_HeadingLineDatesAttributed ==
    ppc = "done" =>
        LET lines == Lines(raw_text)
        IN \A i \in DOMAIN lines :
               (~IsDecoy(lines[i]) /\ classify_header(lines[i]) # None) =>
                   \A ds \in DatesOnLine(lines[i]) :
                       ds \in Range(collections[classify_header(lines[i])])

\* C13: a line that is no decoy line and no heading, that follows a service
\* heading and holds two or more distinct valid dates, contributes each of
\* them to that service's list; and no list holds a date twice.
C13_EveryDateOfALine ==
    ppc = "done" =>
        LET lines == Lines(raw_text)
        IN /\ \A i \in DOMAIN lines :
                  (/\ ~IsDecoy(lines[i])
                   /\ classify_header(lines[i]) = None
                   /\ HeaderAbove(lines, i) # None
                   /\ Cardinality(DatesOnLine(lines[i])) >= 2) =>
                      \A ds \in DatesOnLine(lines[i]) :
                          ds \in Range(collections[HeaderAbove(lines, i)])
           /\ \A s \in ServiceKeys :
                  \A m \in DOMAIN collections[s] : \A n \in DOMAIN collections[s] :
                      collections[s][m] = collections[s][n] => m = n

====
